---------------------------- MODULE Spec2Model ----------------------------
(***************************************************************************)
(* A model of huha.js (src/src/huha.js): the Huha registry, its HuhaTask   *)
(* and HuhaEvent records, and the calls they make to the analytics         *)
(* backends (gtag, ga, Intercom, analytics).                               *)
(*                                                                         *)
(* A task is identified by its position in the registry's tasks array; a   *)
(* parentTask reference is the position of the parent (0: no parent).      *)
(* Every call of new Date().getTime() is an input of the action making it. *)
(***************************************************************************)
EXTENDS Integers, Sequences, FiniteSets

\* ------------------------------------------------------------- bounds
MaxTasks == 3
MaxEvents == 1
MaxTime == 1
MaxCalls == 2
\* The smaller bounds of the specifications that vary something else widely.
FewTasks == 2
FewCalls == 1
\* The larger bound of the specification of the events.
ManyEvents == 3

Names == {"signup", "checkout"}
Times == 0..MaxTime
EventGroups == {"", "g1"}
Triggers == {"click", "focus", "change"}
EventTypes == {"start", "complete", "abandon", "interaction", "error"}

\* ---------------------------------------------------------- constants
IN_PROGRESS == "In progress"
COMPLETED == "Completed"
ABANDONED == "Abandoned"

OptionKeys == {"trackOnGoogleAnalytics", "trackOnIntercom", "trackOnSegment"}
EventOptionKeys == {"trackOnGoogleAnalytics", "trackOnSegment"}
BackendGlobals == {"gtag", "ga", "Intercom", "analytics"}

BUILTIN_DEFAULTS ==
  [trackOnGoogleAnalytics |-> FALSE, trackOnIntercom |-> FALSE, trackOnSegment |-> TRUE]

\* The options objects a caller may pass: any subset of the keys, each a Boolean.
Options == UNION {[K -> BOOLEAN] : K \in SUBSET OptionKeys}

VARIABLES
  DEFAULTS,    \* the module-level DEFAULTS object (Object.assign mutates it)
  trackOn,     \* the registry's trackOnGoogleAnalytics/Intercom/Segment fields
  tasks,       \* the registry's tasks array
  events,      \* the registry's events array
  globals,     \* which of gtag, ga, Intercom, analytics are defined
  throwing,    \* which of them throw when called
  tracked,     \* per task: the backend calls made for it, in order
  eventCalls,  \* per event constructed: the event, the backend calls made for it
               \* and the eventGroup argument it was constructed with
  calls,       \* per task: how often addInteraction and addError were called on it
  thrown,      \* whether the last operation ended by throwing
  last         \* the last operation observed: its name, whether it changed
               \* anything, (registerEvent) whether the trigger matched, and
               \* (new Huha) the options passed

vars == <<DEFAULTS, trackOn, tasks, events, globals, throwing, tracked, eventCalls,
          calls, thrown, last>>

\* ------------------------------------------------------------ helpers
\* Object.assign(target, source): target's keys overwritten by source's.
ObjectAssign(target, source) ==
  [k \in (DOMAIN target) \cup (DOMAIN source) |->
     IF k \in DOMAIN source THEN source[k] ELSE target[k]]

\* typeof g !== 'undefined'
Defined(g) == g \in globals

\* What a piece of code did to the backends: the calls that returned, in order,
\* and whether it ended by throwing.
Skip == [calls |-> <<>>, thrown |-> FALSE]

\* The calls cs made on global g, one after the other: calling what is not
\* defined is a ReferenceError, and a backend that throws does so at once.
Invoke(g, cs) ==
  IF Defined(g) /\ g \notin throwing
  THEN [calls |-> cs, thrown |-> FALSE]
  ELSE [calls |-> <<>>, thrown |-> TRUE]

\* first; then: then runs unless first threw.
AndThen(first, then) ==
  IF first.thrown THEN first
  ELSE [calls |-> first.calls \o then.calls, thrown |-> then.thrown]

\* ----------------------------------------------------------- HuhaTask
\* new HuhaTask(name, parentTask, options), mergedOptions being the merged
\* DEFAULTS and now the value of new Date().getTime(). end: <<>> is null.
HuhaTask(name, parentTask, mergedOptions, now) ==
  [name |-> name,
   status |-> IN_PROGRESS,
   effort |-> 0,
   errors |-> 0,
   start |-> now,
   end |-> <<>>,
   trackOnGoogleAnalytics |-> mergedOptions.trackOnGoogleAnalytics,
   trackOnIntercom |-> mergedOptions.trackOnIntercom,
   trackOnSegment |-> mergedOptions.trackOnSegment,
   parentTask |-> parentTask]

\* get time(): end - start when end is truthy (neither null nor 0), else 0.
time(task) ==
  IF task.end # <<>> /\ task.end[1] # 0 THEN task.end[1] - task.start ELSE 0

\* sendToGoogleAnalytics(): three gtag calls, else three ga calls, else none.
sendToGoogleAnalytics(task) ==
  LET send(fn) ==
        << [fn |-> fn, label |-> "Time on task", name |-> task.name,
            status |-> task.status, value |-> time(task)],
           [fn |-> fn, label |-> "Error", name |-> task.name,
            status |-> task.status, value |-> task.errors],
           [fn |-> fn, label |-> "Effort", name |-> task.name,
            status |-> task.status, value |-> task.effort] >>
  IN IF Defined("gtag") THEN Invoke("gtag", send("gtag"))
     ELSE IF Defined("ga") THEN Invoke("ga", send("ga"))
     ELSE Skip

\* sendToIntercom(): one Intercom('trackEvent', ...) call.
sendToIntercom(task) ==
  IF Defined("Intercom")
  THEN Invoke("Intercom",
              << [fn |-> "Intercom", label |-> "trackEvent", name |-> task.name,
                  status |-> task.status, errors |-> task.errors,
                  effort |-> task.effort, time |-> time(task)] >>)
  ELSE Skip

\* A sendToSegment that calls analytics.track without looking for analytics.
sendToSegment_Unguarded(task) ==
  Invoke("analytics",
         << [fn |-> "analytics.track", label |-> "Task", name |-> task.name,
             status |-> task.status, errors |-> task.errors,
             effort |-> task.effort, time |-> time(task), started |-> task.start] >>)

\* sendToSegment(): one analytics.track(...) call.
sendToSegment(task) ==
  IF Defined("analytics")
  THEN Invoke("analytics",
              << [fn |-> "analytics.track", label |-> "Task", name |-> task.name,
                  status |-> task.status, errors |-> task.errors,
                  effort |-> task.effort, time |-> time(task),
                  started |-> task.start] >>)
  ELSE Skip

\* A track that goes to Segment first.
track_SegmentFirst(task) ==
  AndThen(IF task.trackOnSegment THEN sendToSegment(task) ELSE Skip,
          AndThen(IF task.trackOnGoogleAnalytics THEN sendToGoogleAnalytics(task)
                  ELSE Skip,
                  IF task.trackOnIntercom THEN sendToIntercom(task) ELSE Skip))

\* track(): Google Analytics, then Intercom, then Segment.
track(task) ==
  AndThen(IF task.trackOnGoogleAnalytics THEN sendToGoogleAnalytics(task) ELSE Skip,
          AndThen(IF task.trackOnIntercom THEN sendToIntercom(task) ELSE Skip,
                  IF task.trackOnSegment THEN sendToSegment(task) ELSE Skip))

\* A registry value: the tasks array with the calls made for each task, how
\* often each task was called, and whether the operation under way has thrown.
Registry == [tasks |-> tasks, tracked |-> tracked, calls |-> calls, thrown |-> FALSE]

\* A finish that ends the task again, whatever its status.
finish_Unguarded(r, i, status, now) ==
  LET done == [r.tasks[i] EXCEPT !.end = <<now>>, !.status = status]
      sent == track(done)
  IN [r EXCEPT !.tasks[i] = done, !.tracked[i] = @ \o sent.calls,
               !.thrown = sent.thrown]

\* A finish that tracks outside its test of the status.
finish_TrackAlways(r, i, status, now) ==
  LET done == IF r.tasks[i].status = IN_PROGRESS
              THEN [r.tasks[i] EXCEPT !.end = <<now>>, !.status = status]
              ELSE r.tasks[i]
      sent == track(done)
  IN [r EXCEPT !.tasks[i] = done, !.tracked[i] = @ \o sent.calls,
               !.thrown = sent.thrown]

\* A finish that tracks the task first and ends it only if that returned.
finish_TrackFirst(r, i, status, now) ==
  IF r.tasks[i].status = IN_PROGRESS
  THEN LET done == [r.tasks[i] EXCEPT !.end = <<now>>, !.status = status]
           sent == track(done)
       IN IF sent.thrown
          THEN [r EXCEPT !.tracked[i] = @ \o sent.calls, !.thrown = TRUE]
          ELSE [r EXCEPT !.tasks[i] = done, !.tracked[i] = @ \o sent.calls]
  ELSE r

\* task.finish(status) on task i of registry r at time now.
finish(r, i, status, now) ==
  IF r.tasks[i].status = IN_PROGRESS
  THEN LET done == [r.tasks[i] EXCEPT !.end = <<now>>, !.status = status]
           sent == track(done)
       IN [r EXCEPT !.tasks[i] = done, !.tracked[i] = @ \o sent.calls,
                    !.thrown = sent.thrown]
  ELSE r

complete(r, i, now) == finish(r, i, COMPLETED, now)

\* An abandon that ends the task as the other status.
abandon_AsCompleted(r, i, now) == finish(r, i, COMPLETED, now)

abandon(r, i, now) == finish(r, i, ABANDONED, now)

\* An addInteraction that reaches the parent and stops there.
addInteractionTo_ParentOnly(ts, i) ==
  LET own == [ts EXCEPT ![i].effort = @ + 1]
  IN IF ts[i].parentTask # 0
     THEN [own EXCEPT ![ts[i].parentTask].effort = @ + 1]
     ELSE own

\* An addInteraction that goes no further up than the parents in progress.
RECURSIVE addInteractionTo_StopAtTerminal(_, _)
addInteractionTo_StopAtTerminal(ts, i) ==
  LET own == [ts EXCEPT ![i].effort = @ + 1]
  IN IF ts[i].parentTask # 0 /\ ts[ts[i].parentTask].status = IN_PROGRESS
     THEN addInteractionTo_StopAtTerminal(own, ts[i].parentTask)
     ELSE own

\* The tasks array after task.addInteraction() on task i: its effort and,
\* through parentTask, every ancestor's.
RECURSIVE addInteractionTo(_, _)
addInteractionTo(ts, i) ==
  LET own == [ts EXCEPT ![i].effort = @ + 1]
  IN IF ts[i].parentTask # 0 THEN addInteractionTo(own, ts[i].parentTask) ELSE own

addInteraction(r, i) ==
  [r EXCEPT !.tasks = addInteractionTo(r.tasks, i),
            !.calls[i].addInteraction = @ + 1]

\* An addError that counts on the tasks in progress only.
RECURSIVE addErrorTo_InProgressOnly(_, _)
addErrorTo_InProgressOnly(ts, i) ==
  LET own == IF ts[i].status = IN_PROGRESS THEN [ts EXCEPT ![i].errors = @ + 1] ELSE ts
  IN IF ts[i].parentTask # 0 THEN addErrorTo_InProgressOnly(own, ts[i].parentTask)
     ELSE own

\* An addError that counts on the parent before it calls the parent's.
RECURSIVE addErrorTo_Twice(_, _)
addErrorTo_Twice(ts, i) ==
  LET own == [ts EXCEPT ![i].errors = @ + 1]
  IN IF ts[i].parentTask # 0
     THEN addErrorTo_Twice([own EXCEPT ![ts[i].parentTask].errors = @ + 1],
                           ts[i].parentTask)
     ELSE own

RECURSIVE addErrorTo(_, _)
addErrorTo(ts, i) ==
  LET own == [ts EXCEPT ![i].errors = @ + 1]
  IN IF ts[i].parentTask # 0 THEN addErrorTo(own, ts[i].parentTask) ELSE own

addError(r, i) ==
  [r EXCEPT !.tasks = addErrorTo(r.tasks, i),
            !.calls[i].addError = @ + 1]

\* ---------------------------------------------------------- HuhaEvent
\* A uuidv1 that returns the same token every time.
uuidv1_Constant(n) == "uuid-1"

\* uuidv1(): the token generated for the n-th event; the generator is taken to
\* return a fresh value on every call.
uuidv1(n) ==
  CASE n = 1 -> "uuid-1" [] n = 2 -> "uuid-2" [] n = 3 -> "uuid-3" [] OTHER -> "uuid-4"

\* new HuhaEvent(name, object, action, section, value, task, eventGroup, options):
\* eventGroup || uuidv1(), the empty string being falsy like undefined.
HuhaEvent(name, object, action, section, value, task, eventGroup, mergedOptions, uuid) ==
  [name |-> name,
   object |-> object,
   action |-> action,
   section |-> section,
   value |-> value,
   task |-> task,
   eventGroup |-> IF eventGroup # "" THEN eventGroup ELSE uuid,
   trackOnGoogleAnalytics |-> mergedOptions.trackOnGoogleAnalytics,
   trackOnSegment |-> mergedOptions.trackOnSegment]

\* HuhaEvent.sendToGoogleAnalytics(): one gtag call, else one ga call, else none.
eventSendToGoogleAnalytics(event) ==
  LET send(fn) ==
        << [fn |-> fn, name |-> event.name, category |-> event.section,
            label |-> event.object, action |-> event.action, value |-> event.value] >>
  IN IF Defined("gtag") THEN Invoke("gtag", send("gtag"))
     ELSE IF Defined("ga") THEN Invoke("ga", send("ga"))
     ELSE Skip

\* HuhaEvent.sendToSegment(): one analytics.track call.
eventSendToSegment(event) ==
  IF Defined("analytics")
  THEN Invoke("analytics",
              << [fn |-> "analytics.track", name |-> event.name,
                  category |-> event.section, label |-> event.object,
                  action |-> event.action, value |-> event.value,
                  eventGroup |-> event.eventGroup] >>)
  ELSE Skip

\* HuhaEvent.track(): Google Analytics, then Segment.
eventTrack(event) ==
  AndThen(IF event.trackOnGoogleAnalytics THEN eventSendToGoogleAnalytics(event)
          ELSE Skip,
          IF event.trackOnSegment THEN eventSendToSegment(event) ELSE Skip)

\* --------------------------------------------------------------- Huha
\* The positions of the tasks named name that are in progress.
InProgressNamed(ts, name) ==
  {i \in 1..Len(ts) : ts[i].name = name /\ ts[i].status = IN_PROGRESS}

Min(S) == CHOOSE x \in S : \A y \in S : x <= y

\* getTask(name): Array.find, the first task named name that is in progress;
\* 0 is undefined.
getTask(ts, name) ==
  IF InProgressNamed(ts, name) = {} THEN 0 ELSE Min(InProgressNamed(ts, name))

\* The registry's own three flags, passed as options to every task it creates.
TaskOptions ==
  [trackOnGoogleAnalytics |-> trackOn.trackOnGoogleAnalytics,
   trackOnIntercom |-> trackOn.trackOnIntercom,
   trackOnSegment |-> trackOn.trackOnSegment]

\* The two flags passed as options to every event it creates.
EventOptions ==
  [trackOnGoogleAnalytics |-> trackOn.trackOnGoogleAnalytics,
   trackOnSegment |-> trackOn.trackOnSegment]

\* A createTask that pushes the new task and leaves the old one alone.
createTask_NoAbandon(r, name, parentTask, tAbandon, tStart) ==
  [r EXCEPT
     !.tasks = Append(@, HuhaTask(name, parentTask,
                                  ObjectAssign(DEFAULTS, TaskOptions), tStart)),
     !.tracked = Append(@, <<>>),
     !.calls = Append(@, [addInteraction |-> 0, addError |-> 0])]

\* A createTask that puts the new task in the place of the one it abandons.
createTask_Replace(r, name, parentTask, tAbandon, tStart) ==
  LET existingTask == getTask(r.tasks, name)
      abandoned == IF existingTask # 0 THEN abandon(r, existingTask, tAbandon) ELSE r
      huhaTask == HuhaTask(name, parentTask, ObjectAssign(DEFAULTS, TaskOptions), tStart)
  IN IF abandoned.thrown THEN abandoned
     ELSE IF existingTask # 0
          THEN [abandoned EXCEPT
                  !.tasks[existingTask] = huhaTask,
                  !.tracked[existingTask] = <<>>,
                  !.calls[existingTask] = [addInteraction |-> 0, addError |-> 0]]
          ELSE [abandoned EXCEPT
                  !.tasks = Append(@, huhaTask),
                  !.tracked = Append(@, <<>>),
                  !.calls = Append(@, [addInteraction |-> 0, addError |-> 0])]

\* createTask(name, parentTask): abandon the in-progress task of that name (at
\* time tAbandon), then, unless that threw, push a new task (started at tStart).
createTask(r, name, parentTask, tAbandon, tStart) ==
  LET existingTask == getTask(r.tasks, name)
      abandoned == IF existingTask # 0 THEN abandon(r, existingTask, tAbandon) ELSE r
      huhaTask == HuhaTask(name, parentTask, ObjectAssign(DEFAULTS, TaskOptions), tStart)
  IN IF abandoned.thrown THEN abandoned
     ELSE [abandoned EXCEPT
             !.tasks = Append(@, huhaTask),
             !.tracked = Append(@, <<>>),
             !.calls = Append(@, [addInteraction |-> 0, addError |-> 0])]

\* abandonInProgressTasks(): abandon() on every task the filter kept, task i at
\* time now[i], until one throws.
RECURSIVE abandonFrom(_, _, _, _)
abandonFrom(r, pendingTasks, i, now) ==
  IF i > Len(r.tasks) \/ r.thrown THEN r
  ELSE abandonFrom(IF i \in pendingTasks THEN abandon(r, i, now[i]) ELSE r,
                   pendingTasks, i + 1, now)

\* An abandonInProgressTasks that stops after the first pending task.
abandonInProgressTasks_FirstOnly(r, now) ==
  LET pendingTasks == {i \in 1..Len(r.tasks) : r.tasks[i].status = IN_PROGRESS}
  IN IF pendingTasks = {} THEN r
     ELSE abandon(r, Min(pendingTasks), now[Min(pendingTasks)])

abandonInProgressTasks(r, now) ==
  LET pendingTasks == {i \in 1..Len(r.tasks) : r.tasks[i].status = IN_PROGRESS}
  IN abandonFrom(r, pendingTasks, 1, now)

\* A registerEvent that acts whatever event was captured.
registerEvent_AnyTrigger(r, capturedEvent, dataset, tAbandon, tStart) ==
  LET task == getTask(r.tasks, dataset.huhaTask)
  IN IF dataset.huhaEvent = "start"
     THEN createTask(r, dataset.huhaTask, 0, tAbandon, tStart)
     ELSE IF task # 0
          THEN CASE dataset.huhaEvent = "complete" -> complete(r, task, tAbandon)
                 [] dataset.huhaEvent = "abandon" -> abandon(r, task, tAbandon)
                 [] dataset.huhaEvent = "interaction" -> addInteraction(r, task)
                 [] dataset.huhaEvent = "error" -> addError(r, task)
                 [] OTHER -> r
          ELSE r

\* A registerEvent that looks the task up by its name alone.
registerEvent_AnyStatus(r, capturedEvent, dataset, tAbandon, tStart) ==
  LET named == {i \in 1..Len(r.tasks) : r.tasks[i].name = dataset.huhaTask}
      task == IF named = {} THEN 0 ELSE Min(named)
  IN IF capturedEvent = dataset.huhaTrigger
     THEN IF dataset.huhaEvent = "start"
          THEN createTask(r, dataset.huhaTask, 0, tAbandon, tStart)
          ELSE IF task # 0
               THEN CASE dataset.huhaEvent = "complete" -> complete(r, task, tAbandon)
                      [] dataset.huhaEvent = "abandon" -> abandon(r, task, tAbandon)
                      [] dataset.huhaEvent = "interaction" -> addInteraction(r, task)
                      [] dataset.huhaEvent = "error" -> addError(r, task)
                      [] OTHER -> r
               ELSE r
     ELSE r

\* registerEvent(capturedEvent, element), dataset being element.dataset.
registerEvent(r, capturedEvent, dataset, tAbandon, tStart) ==
  LET taskName == dataset.huhaTask
      actionTrigger == dataset.huhaTrigger
      eventType == dataset.huhaEvent
      task == getTask(r.tasks, taskName)
  IN IF capturedEvent = actionTrigger
     THEN IF eventType = "start"
          THEN createTask(r, taskName, 0, tAbandon, tStart)
          ELSE IF task # 0
               THEN CASE eventType = "complete" -> complete(r, task, tAbandon)
                      [] eventType = "abandon" -> abandon(r, task, tAbandon)
                      [] eventType = "interaction" -> addInteraction(r, task)
                      [] eventType = "error" -> addError(r, task)
                      [] OTHER -> r
               ELSE r
     ELSE r

\* A createEvent that tracks the event and does not keep it.
createEvent_NoPush(evs, evCalls, name, object, action, section, value, task, eventGroup) ==
  LET huhaEvent == HuhaEvent(name, object, action, section, value, task, eventGroup,
                             ObjectAssign(DEFAULTS, EventOptions),
                             uuidv1(Len(evCalls) + 1))
      sent == eventTrack(huhaEvent)
  IN [events |-> evs,
      eventCalls |-> Append(evCalls, [event |-> huhaEvent, calls |-> sent.calls,
                                      eventGroup |-> eventGroup]),
      thrown |-> sent.thrown]

\* createEvent(name, object, action, section, value, task, eventGroup): the
\* events array and the calls made per event afterwards; the event is pushed
\* after it is tracked, so not at all when tracking it throws.
createEvent(evs, evCalls, name, object, action, section, value, task, eventGroup) ==
  LET huhaEvent == HuhaEvent(name, object, action, section, value, task, eventGroup,
                             ObjectAssign(DEFAULTS, EventOptions),
                             uuidv1(Len(evCalls) + 1))
      sent == eventTrack(huhaEvent)
  IN [events |-> IF sent.thrown THEN evs ELSE Append(evs, huhaEvent),
      eventCalls |-> Append(evCalls, [event |-> huhaEvent, calls |-> sent.calls,
                                      eventGroup |-> eventGroup]),
      thrown |-> sent.thrown]

\* ------------------------------------------------------------ actions
\* The program's state, last being the observer's.
state ==
  <<DEFAULTS, trackOn, tasks, events, globals, throwing, tracked, eventCalls, calls>>

SetRegistry(r) ==
  /\ tasks' = r.tasks
  /\ tracked' = r.tracked
  /\ calls' = r.calls
  /\ thrown' = r.thrown

\* The state after new Huha(options) in a page where the backends in defined
\* are loaded, those in faulty throwing when called.
InitWith(options, defined, faulty) ==
  /\ DEFAULTS = ObjectAssign(BUILTIN_DEFAULTS, options)
  /\ trackOn = ObjectAssign(BUILTIN_DEFAULTS, options)
  /\ globals = defined
  /\ throwing = faulty
  /\ thrown = FALSE
  /\ tasks = <<>>
  /\ events = <<>>
  /\ tracked = <<>>
  /\ eventCalls = <<>>
  /\ calls = <<>>
  /\ last = [op |-> "new Huha", changed |-> TRUE, matched |-> TRUE,
             options |-> options]

\* new Huha(options) once more in the same page, before the registry is used:
\* the model follows the newest registry.
NewHuha(options) ==
  /\ tasks = <<>> /\ events = <<>>
  /\ DEFAULTS' = ObjectAssign(DEFAULTS, options)
  /\ trackOn' = ObjectAssign(DEFAULTS, options)
  /\ thrown' = FALSE
  /\ UNCHANGED <<tasks, events, globals, throwing, tracked, eventCalls, calls>>

\* huha.createTask(name, parentTask)
CreateTask(name, parentTask, tAbandon, tStart) ==
  /\ SetRegistry(createTask(Registry, name, parentTask, tAbandon, tStart))
  /\ DEFAULTS' = IF thrown' THEN DEFAULTS ELSE ObjectAssign(DEFAULTS, TaskOptions)
  /\ UNCHANGED <<trackOn, events, globals, throwing, eventCalls>>

\* huha.createEvent(name, object, action, section, value, task, eventGroup)
CreateEvent(name, object, action, section, value, task, eventGroup) ==
  /\ LET e == createEvent(events, eventCalls, name, object, action, section, value,
                          task, eventGroup)
     IN /\ events' = e.events
        /\ eventCalls' = e.eventCalls
        /\ thrown' = e.thrown
  /\ DEFAULTS' = ObjectAssign(DEFAULTS, EventOptions)
  /\ UNCHANGED <<trackOn, tasks, globals, throwing, tracked, calls>>

\* task.complete() on the task at position i
TaskComplete(i, now) ==
  /\ SetRegistry(complete(Registry, i, now))
  /\ UNCHANGED <<DEFAULTS, trackOn, events, globals, throwing, eventCalls>>

\* task.abandon() on the task at position i
TaskAbandon(i, now) ==
  /\ SetRegistry(abandon(Registry, i, now))
  /\ UNCHANGED <<DEFAULTS, trackOn, events, globals, throwing, eventCalls>>

\* task.addInteraction() on the task at position i
TaskAddInteraction(i) ==
  /\ SetRegistry(addInteraction(Registry, i))
  /\ UNCHANGED <<DEFAULTS, trackOn, events, globals, throwing, eventCalls>>

\* task.addError() on the task at position i
TaskAddError(i) ==
  /\ SetRegistry(addError(Registry, i))
  /\ UNCHANGED <<DEFAULTS, trackOn, events, globals, throwing, eventCalls>>

\* huha.registerEvent(capturedEvent, element)
RegisterEvent(capturedEvent, dataset, tAbandon, tStart) ==
  /\ SetRegistry(registerEvent(Registry, capturedEvent, dataset, tAbandon, tStart))
  /\ DEFAULTS' = IF /\ capturedEvent = dataset.huhaTrigger
                    /\ dataset.huhaEvent = "start"
                    /\ ~thrown'
                 THEN ObjectAssign(DEFAULTS, TaskOptions)
                 ELSE DEFAULTS
  /\ UNCHANGED <<trackOn, events, globals, throwing, eventCalls>>

\* huha.abandonInProgressTasks(), also the handler of the page's unload event
AbandonInProgressTasks(now) ==
  /\ SetRegistry(abandonInProgressTasks(Registry, now))
  /\ UNCHANGED <<DEFAULTS, trackOn, events, globals, throwing, eventCalls>>

\* ----------------------------------------------------- specifications
\* A scope is the inputs a specification draws from and the sizes it stops at:
\* the options and the loaded backends the registry is built with, the task
\* names, the clock's values, the captured and the declared triggers, the events' task and
\* eventGroup arguments, and the most tasks, addInteraction/addError calls and
\* events. With observe, last records every operation.
RECURSIVE SumCalls(_, _)
SumCalls(cs, i) ==
  IF i = 0 THEN 0
  ELSE cs[i].addInteraction + cs[i].addError + SumCalls(cs, i - 1)

Within(S) ==
  /\ Len(tasks) <= S.maxTasks
  /\ SumCalls(calls, Len(calls)) <= S.maxCalls
  /\ Len(eventCalls) <= S.maxEvents

NoOptions == [k \in {} |-> TRUE]
AllOptions == [k \in OptionKeys |-> TRUE]

ObserveWith(S, op, matched, options) ==
  /\ Within(S)'
  /\ last' = IF S.observe
             THEN [op |-> op, changed |-> state' # state, matched |-> matched,
                   options |-> options]
             ELSE last

Observe(S, op, matched) == ObserveWith(S, op, matched, NoOptions)

InitOf(S) ==
  \E options \in S.options, defined \in S.globals, faulty \in S.throwing :
    InitWith(options, defined, faulty)

NextOf(S) ==
  \/ \E options \in S.options :
       NewHuha(options) /\ ObserveWith(S, "new Huha", TRUE, options)
  \/ \E name \in S.names, parentTask \in 0..Len(tasks), tAbandon, tStart \in S.times :
       CreateTask(name, parentTask, tAbandon, tStart) /\ Observe(S, "createTask", TRUE)
  \/ \E task \in S.eventTasks, eventGroup \in S.eventGroups :
       /\ CreateEvent("event", "button", "click", "form", 1, task, eventGroup)
       /\ Observe(S, "createEvent", TRUE)
  \/ \E i \in 1..Len(tasks), now \in S.times :
       TaskComplete(i, now) /\ Observe(S, "complete", TRUE)
  \/ \E i \in 1..Len(tasks), now \in S.times :
       TaskAbandon(i, now) /\ Observe(S, "abandon", TRUE)
  \/ \E i \in 1..Len(tasks) :
       TaskAddInteraction(i) /\ Observe(S, "addInteraction", TRUE)
  \/ \E i \in 1..Len(tasks) :
       TaskAddError(i) /\ Observe(S, "addError", TRUE)
  \/ \E capturedEvent \in S.captured,
        dataset \in [huhaTask : S.names, huhaTrigger : S.triggers, huhaEvent : EventTypes],
        tAbandon, tStart \in S.times :
       /\ RegisterEvent(capturedEvent, dataset, tAbandon, tStart)
       /\ Observe(S, "registerEvent", capturedEvent = dataset.huhaTrigger)
  \/ \E now \in [1..Len(tasks) -> S.times] :
       AbandonInProgressTasks(now) /\ Observe(S, "abandonInProgressTasks", TRUE)

\* Spec: the task lifecycle. Up to MaxTasks tasks of two names with any
\* parents; the registry is built with no options or with every flag set, in a
\* page with every backend loaded; the clock stands still.
Lifecycle ==
  [options |-> {NoOptions, AllOptions}, globals |-> {BackendGlobals},
   throwing |-> {{}},
   names |-> Names, times |-> {1}, captured |-> {"click", "focus"},
   triggers |-> {"click"},
   eventTasks |-> {"undefined"}, eventGroups |-> {""},
   maxTasks |-> MaxTasks, maxCalls |-> FewCalls, maxEvents |-> MaxEvents,
   observe |-> TRUE]

Init == InitOf(Lifecycle)

Next == NextOf(Lifecycle)

Spec == Init /\ [][Next]_vars

\* SpecCounters: the counters and their propagation. Up to MaxTasks tasks of
\* three names with any parents and up to MaxCalls addInteraction/addError
\* calls; the registry is built with no options in a page with every backend.
Counters ==
  [options |-> {NoOptions}, globals |-> {BackendGlobals},
   throwing |-> {{}},
   names |-> Names \cup {"signup.step1"}, times |-> {1}, captured |-> {"click"},
   triggers |-> {"click"},
   eventTasks |-> {"undefined"}, eventGroups |-> {""},
   maxTasks |-> MaxTasks, maxCalls |-> MaxCalls, maxEvents |-> MaxEvents,
   observe |-> FALSE]

SpecCounters == InitOf(Counters) /\ [][NextOf(Counters)]_vars

\* SpecClock: the timestamps. Up to FewTasks tasks, every reading of the
\* clock being any of Times (the wall clock can be set back between two).
Clock ==
  [options |-> {NoOptions, AllOptions}, globals |-> {BackendGlobals},
   throwing |-> {{}},
   names |-> Names, times |-> Times, captured |-> {"click"},
   triggers |-> {"click"},
   eventTasks |-> {"undefined"}, eventGroups |-> {""},
   maxTasks |-> FewTasks, maxCalls |-> FewCalls, maxEvents |-> MaxEvents,
   observe |-> TRUE]

SpecClock == InitOf(Clock) /\ [][NextOf(Clock)]_vars

\* SpecSinks: the backends. Up to FewTasks tasks; the registry is built with
\* any options, in a page with any of the backends loaded.
Sinks ==
  [options |-> Options, globals |-> SUBSET BackendGlobals,
   throwing |-> {{}},
   names |-> {"signup"}, times |-> {1}, captured |-> {"click"},
   triggers |-> {"click"},
   eventTasks |-> {"undefined"}, eventGroups |-> {""},
   maxTasks |-> FewTasks, maxCalls |-> FewCalls, maxEvents |-> MaxEvents,
   observe |-> TRUE]

SpecSinks == InitOf(Sinks) /\ [][NextOf(Sinks)]_vars

\* SpecEvents: the events. Up to ManyEvents events, each for no task, for a
\* name no task has or for the name the tasks have, with or without an
\* eventGroup; up to FewTasks tasks.
Events ==
  [options |-> {NoOptions, AllOptions}, globals |-> {BackendGlobals},
   throwing |-> {{}},
   names |-> {"signup"}, times |-> {1}, captured |-> {"click"},
   triggers |-> {"click"},
   eventTasks |-> {"undefined", "unknown", "signup"}, eventGroups |-> EventGroups,
   maxTasks |-> FewTasks, maxCalls |-> FewCalls, maxEvents |-> ManyEvents,
   observe |-> TRUE]

SpecEvents == InitOf(Events) /\ [][NextOf(Events)]_vars

\* SpecFaults: the backends that throw. Up to FewTasks tasks of two names; the
\* registry is built with no options or with every flag set, in a page with
\* every backend loaded, of which gtag, Intercom or analytics throws when
\* called.
Faults ==
  [options |-> {NoOptions, AllOptions}, globals |-> {BackendGlobals},
   throwing |-> {{"gtag"}, {"Intercom"}, {"analytics"}},
   names |-> Names, times |-> {1}, captured |-> {"click"},
   triggers |-> {"click"},
   eventTasks |-> {"undefined"}, eventGroups |-> {""},
   maxTasks |-> FewTasks, maxCalls |-> FewCalls, maxEvents |-> MaxEvents,
   observe |-> TRUE]

SpecFaults == InitOf(Faults) /\ [][NextOf(Faults)]_vars

\* ------------------------------------------------------------- claims
Positions == 1..Len(tasks)

\* How many calls of backend function fn with the given label are in cs.
Sent(cs, fn, label) ==
  Len(SelectSeq(cs, LAMBDA c : c.fn = fn /\ c.label = label))

\* The calls a task's summary consists of, per backend function.
SummaryLabels(fn) ==
  CASE fn \in {"gtag", "ga"} -> {"Time on task", "Error", "Effort"}
    [] fn = "Intercom" -> {"trackEvent"}
    [] fn = "analytics.track" -> {"Task"}

BackendFunctions == {"gtag", "ga", "Intercom", "analytics.track"}

\* Whether task t's summary goes to backend function fn: its sink is enabled
\* on the task and the function is there (ga only where gtag is not).
SinkOn(t, fn) ==
  CASE fn = "gtag" -> t.trackOnGoogleAnalytics /\ Defined("gtag")
    [] fn = "ga" -> t.trackOnGoogleAnalytics /\ ~Defined("gtag") /\ Defined("ga")
    [] fn = "Intercom" -> t.trackOnIntercom /\ Defined("Intercom")
    [] fn = "analytics.track" -> t.trackOnSegment /\ Defined("analytics")

\* cs holds task t's summary exactly once for every sink that is on, and
\* nothing else.
DispatchedOnce(t, cs) ==
  \A fn \in BackendFunctions : \A label \in SummaryLabels(fn) :
    /\ Sent(cs, fn, label) = IF SinkOn(t, fn) THEN 1 ELSE 0
    /\ \A k \in 1..Len(cs) : cs[k].label \in SummaryLabels(cs[k].fn)

\* C1: in every reachable state, for every task name, at most one task of the
\* registry's tasks array is in progress.
C1_OneInProgressPerName ==
  \A name \in Names : Cardinality(InProgressNamed(tasks, name)) <= 1

\* A name was created twice and a task of the other name is in progress too.
C1_Witness ==
  \E i, j, k \in Positions :
    /\ i < j /\ tasks[i].name = tasks[j].name /\ tasks[k].name # tasks[i].name
    /\ tasks[i].status = ABANDONED
    /\ tasks[j].status = IN_PROGRESS /\ tasks[k].status = IN_PROGRESS

\* C6: a step that adds a task leaves the new task last, in progress with
\* effort 0 and errors 0, and the one getTask(name) returns; the task of that
\* name that was in progress is Abandoned, its summary dispatched once; every
\* other task is as it was.
C6_CreateTaskReplaces ==
  [][Len(tasks') = Len(tasks) + 1 =>
       LET new == Len(tasks')
           name == tasks'[new].name
           old == getTask(tasks, name)
       IN /\ tasks'[new].status = IN_PROGRESS
          /\ tasks'[new].effort = 0 /\ tasks'[new].errors = 0
          /\ tasks'[new].end = <<>>
          /\ getTask(tasks', name) = new
          /\ old # 0 =>
               /\ tasks'[old].status = ABANDONED /\ tasks'[old].end # <<>>
               /\ tracked[old] = <<>>
               /\ DispatchedOnce(tasks'[old], tracked'[old])
               /\ [tasks'[old] EXCEPT !.status = IN_PROGRESS, !.end = <<>>] = tasks[old]
          /\ \A k \in Positions :
               k # old => tasks'[k] = tasks[k] /\ tracked'[k] = tracked[k]]_vars

\* createTask has just replaced an in-progress task whose summary went out.
C6_Witness ==
  /\ last.op = "createTask"
  /\ \E i \in Positions :
       /\ i < Len(tasks) /\ tasks[i].name = tasks[Len(tasks)].name
       /\ tasks[i].status = ABANDONED /\ tracked[i] # <<>>
       /\ tasks[Len(tasks)].status = IN_PROGRESS
       /\ getTask(tasks, tasks[i].name) = Len(tasks)

\* C7: a registerEvent step whose captured event differs from the element's
\* declared trigger changes nothing: no task, status, counter or backend call.
C7_MismatchIgnored ==
  [][(last'.op = "registerEvent" /\ ~last'.matched) => UNCHANGED state]_vars

\* registerEvent has just ignored an event while a task was in progress.
C7_Witness ==
  /\ last.op = "registerEvent" /\ ~last.matched /\ ~last.changed
  /\ \E i \in Positions : tasks[i].status = IN_PROGRESS

\* C8: an abandonInProgressTasks step leaves no task in progress; the tasks
\* that were in progress are Abandoned, each summary dispatched once; the tasks
\* that were not are as they were, with no further call; so a step taken when
\* no task is in progress changes nothing.
C8_SweepAbandonsPending ==
  [][last'.op = "abandonInProgressTasks" =>
       /\ Len(tasks') = Len(tasks)
       /\ \A i \in Positions :
            /\ tasks'[i].status # IN_PROGRESS
            /\ tasks[i].status = IN_PROGRESS =>
                 /\ tasks'[i].status = ABANDONED /\ tasks'[i].end # <<>>
                 /\ tracked[i] = <<>>
                 /\ DispatchedOnce(tasks'[i], tracked'[i])
            /\ tasks[i].status # IN_PROGRESS =>
                 tasks'[i] = tasks[i] /\ tracked'[i] = tracked[i]
       /\ ((\A i \in Positions : tasks[i].status # IN_PROGRESS) => UNCHANGED state)]_vars

\* abandonInProgressTasks has just run over two Abandoned tasks and a
\* Completed one, each dispatched once, and changed nothing.
C8_Witness ==
  /\ last.op = "abandonInProgressTasks" /\ ~last.changed
  /\ \E i, j, k \in Positions :
       /\ i # j /\ tasks[i].name # tasks[j].name
       /\ tasks[i].status = ABANDONED /\ tasks[j].status = ABANDONED
       /\ tasks[k].status = COMPLETED
       /\ \A m \in {i, j, k} : tracked[m] # <<>> /\ DispatchedOnce(tasks[m], tracked[m])

\* Whether task a is task j or one of its ancestors.
RECURSIVE IsAncestorOrSelf(_, _)
IsAncestorOrSelf(a, j) ==
  \/ a = j
  \/ tasks[j].parentTask # 0 /\ IsAncestorOrSelf(a, tasks[j].parentTask)

RECURSIVE SumOver(_, _)
SumOver(f, S) ==
  IF S = {} THEN 0
  ELSE LET x == CHOOSE y \in S : TRUE IN f[x] + SumOver(f, S \ {x})

Descendants(i) == {j \in Positions : IsAncestorOrSelf(i, j)}

\* C4: every task's effort is the number of addInteraction calls made on it
\* and on the tasks it is an ancestor of, and its errors the number of addError
\* calls, in every reachable state (so right after every call).
C4_EagerPropagation ==
  \A i \in Positions :
    /\ tasks[i].effort =
         SumOver([j \in Positions |-> calls[j].addInteraction], Descendants(i))
    /\ tasks[i].errors =
         SumOver([j \in Positions |-> calls[j].addError], Descendants(i))

\* A chain of three tasks in progress: one addInteraction on the grandchild and
\* one addError on the child have reached their ancestors and no one else.
C4_Witness ==
  /\ Len(tasks) = 3
  /\ tasks[2].parentTask = 1 /\ tasks[3].parentTask = 2
  /\ \A i \in Positions : tasks[i].status = IN_PROGRESS
  /\ calls[3].addInteraction = 1 /\ calls[2].addError = 1
  /\ tasks[1].effort = 1 /\ tasks[2].effort = 1 /\ tasks[3].effort = 1
  /\ tasks[1].errors = 1 /\ tasks[2].errors = 1 /\ tasks[3].errors = 0

\* C5 as claimed: no step changes the effort or the errors of a task that is
\* no longer in progress.
C5_Original ==
  [][\A i \in Positions :
       tasks[i].status # IN_PROGRESS =>
         tasks'[i].effort = tasks[i].effort /\ tasks'[i].errors = tasks[i].errors]_vars

\* C5 as amended: a step changes the effort (errors) of a task that is no
\* longer in progress only by an addInteraction (addError) call made on the
\* task or on a task it is an ancestor of, and then by exactly 1.
C5_TerminalCountersByCallsOnly ==
  [][\A i \in Positions :
       tasks[i].status # IN_PROGRESS =>
         /\ tasks'[i].effort = tasks[i].effort +
              (IF \E j \in Descendants(i) :
                    calls'[j].addInteraction = calls[j].addInteraction + 1
               THEN 1 ELSE 0)
         /\ tasks'[i].errors = tasks[i].errors +
              (IF \E j \in Descendants(i) : calls'[j].addError = calls[j].addError + 1
               THEN 1 ELSE 0)]_vars

\* A Completed parent whose summary went out with errors 0 and whose errors are
\* 1 now, from an addError call on its child.
C5_Witness ==
  \E i, j \in Positions :
    /\ tasks[j].parentTask = i /\ tasks[i].status = COMPLETED
    /\ calls[i].addError = 0 /\ calls[j].addError = 1 /\ tasks[i].errors = 1
    /\ \E k \in 1..Len(tracked[i]) :
         tracked[i][k].fn = "analytics.track" /\ tracked[i][k].errors = 0

\* C2: a task that is Completed or Abandoned keeps its status and its end in
\* every step; a task in progress has no end, and a step takes it nowhere but
\* to Completed or Abandoned, setting its end.
C2_TerminalIsFinal ==
  [][\A i \in Positions :
       /\ tasks[i].status # IN_PROGRESS =>
            tasks'[i].status = tasks[i].status /\ tasks'[i].end = tasks[i].end
       /\ tasks[i].status = IN_PROGRESS =>
            /\ tasks[i].end = <<>>
            /\ tasks'[i].status \in {IN_PROGRESS, COMPLETED, ABANDONED}
            /\ tasks'[i].status # IN_PROGRESS => tasks'[i].end # <<>>]_vars

\* complete() has just been called on a task abandoned at time 0, the only
\* one there is, and changed nothing.
C2_Witness ==
  /\ Len(tasks) = 1 /\ tasks[1].status = ABANDONED /\ tasks[1].end = <<0>>
  /\ last.op = "complete" /\ ~last.changed

\* C3: a task in progress has had no backend call; a task no longer in
\* progress has had its summary sent exactly once to every sink that is enabled
\* and available; and a complete() or abandon() step leaves every such task, its
\* calls and its counters as they were.
C3_FinishIdempotent ==
  [][/\ \A i \in 1..Len(tasks') :
          IF tasks'[i].status = IN_PROGRESS THEN tracked'[i] = <<>>
          ELSE DispatchedOnce(tasks'[i], tracked'[i])
     /\ last'.op \in {"complete", "abandon"} =>
          \A i \in Positions :
            tasks[i].status # IN_PROGRESS =>
              tasks'[i] = tasks[i] /\ tracked'[i] = tracked[i]]_vars

\* abandon() has just been called on the only task, which was Completed and
\* sent to two sinks or more, and changed nothing.
C3_Witness ==
  /\ Len(tasks) = 1 /\ tasks[1].status = COMPLETED
  /\ Cardinality({tracked[1][k].fn : k \in 1..Len(tracked[1])}) >= 2
  /\ last.op = "abandon" /\ ~last.changed

\* C9 as claimed: time is 0 for a task that has no end and end - start for a
\* task that has one.
C9_TimeIsEndMinusStart ==
  \A i \in Positions :
    time(tasks[i]) =
      IF tasks[i].end = <<>> THEN 0 ELSE tasks[i].end[1] - tasks[i].start

\* Whether event e goes to backend function fn.
EventSinkOn(e, fn) ==
  CASE fn = "gtag" -> e.trackOnGoogleAnalytics /\ Defined("gtag")
    [] fn = "ga" -> e.trackOnGoogleAnalytics /\ ~Defined("gtag") /\ Defined("ga")
    [] fn = "Intercom" -> FALSE
    [] fn = "analytics.track" -> e.trackOnSegment /\ Defined("analytics")

\* cs holds one call for every sink event e goes to, and nothing else.
EventDispatchedOnce(e, cs) ==
  \A fn \in BackendFunctions :
    Len(SelectSeq(cs, LAMBDA c : c.fn = fn)) = IF EventSinkOn(e, fn) THEN 1 ELSE 0

\* C10: whatever flags are set and whatever backends are loaded, no step
\* throws; a step that ends a task sets its status and end and sends its summary
\* once to every sink that is enabled and available; a step that creates an
\* event appends it and sends it once to every such sink.
C10_UnavailableSkipped ==
  [][/\ ~thrown'
     /\ \A i \in Positions :
          tasks[i].status = IN_PROGRESS /\ tasks'[i].status # IN_PROGRESS =>
            /\ tasks'[i].status \in {COMPLETED, ABANDONED} /\ tasks'[i].end # <<>>
            /\ DispatchedOnce(tasks'[i], tracked'[i])
     /\ Len(eventCalls') = Len(eventCalls) + 1 =>
          /\ events' = Append(events, eventCalls'[Len(eventCalls')].event)
          /\ EventDispatchedOnce(eventCalls'[Len(eventCalls')].event,
                                 eventCalls'[Len(eventCalls')].calls)]_vars

\* With every flag set and neither gtag nor Intercom loaded, a task has ended
\* and an event was created: both went to ga and to analytics.track only.
C10_Witness ==
  /\ globals = {"ga", "analytics"}
  /\ \E i \in Positions :
       /\ tasks[i].status = COMPLETED
       /\ tasks[i].trackOnGoogleAnalytics /\ tasks[i].trackOnIntercom
       /\ tasks[i].trackOnSegment
       /\ Sent(tracked[i], "ga", "Effort") = 1
       /\ Sent(tracked[i], "analytics.track", "Task") = 1
       /\ Len(tracked[i]) = 4
  /\ Len(events) = 1 /\ events[1].trackOnGoogleAnalytics /\ events[1].trackOnSegment
  /\ Len(eventCalls[1].calls) = 2

\* Whether backend call c of a task's summary carries the status, the effort,
\* the errors and the time given.
Carries(c, status, effort, errors, elapsed) ==
  /\ c.status = status
  /\ CASE c.label = "Time on task" -> c.value = elapsed
       [] c.label = "Error" -> c.value = errors
       [] c.label = "Effort" -> c.value = effort
       [] OTHER -> c.effort = effort /\ c.errors = errors /\ c.time = elapsed

\* C11 as claimed: a task with a backend call is no longer in progress and has
\* its end; the step that ends a task makes the task's calls, each carrying the
\* new status, the addInteraction and the addError calls made so far on the task
\* and the tasks under it, and end - start.
C11_SummaryAtTransition ==
  [][\A i \in Positions :
       /\ tracked'[i] # <<>> => tasks'[i].status # IN_PROGRESS /\ tasks'[i].end # <<>>
       /\ tasks[i].status = IN_PROGRESS /\ tasks'[i].status # IN_PROGRESS =>
            /\ tracked[i] = <<>>
            /\ \A k \in 1..Len(tracked'[i]) :
                 Carries(tracked'[i][k], tasks'[i].status,
                         SumOver([j \in Positions |-> calls[j].addInteraction],
                                 Descendants(i)),
                         SumOver([j \in Positions |-> calls[j].addError],
                                 Descendants(i)),
                         tasks'[i].end[1] - tasks'[i].start)]_vars

\* C12: a createEvent step appends the new event, and only it, to events, sends
\* it once to every sink that is enabled and available, and leaves the tasks,
\* their counters and their calls as they were; no other step touches events;
\* and no step adds a call to an event created before it.
C12_EventDispatchedOnce ==
  [][/\ last'.op = "createEvent" =>
          /\ Len(eventCalls') = Len(eventCalls) + 1
          /\ events' = Append(events, eventCalls'[Len(eventCalls')].event)
          /\ EventDispatchedOnce(eventCalls'[Len(eventCalls')].event,
                                 eventCalls'[Len(eventCalls')].calls)
          /\ UNCHANGED <<tasks, tracked, calls>>
     /\ last'.op # "createEvent" => UNCHANGED <<events, eventCalls>>
     /\ \A k \in 1..Len(eventCalls) : eventCalls'[k] = eventCalls[k]]_vars

\* createEvent has just made a second event, for the name of a Completed task
\* whose summary went out, after one for a name no task has; each went to gtag
\* and analytics.track, and the first one's calls are still its two.
C12_Witness ==
  /\ last.op = "createEvent" /\ Len(events) = 2
  /\ events[1].task = "unknown" /\ events[2].task = "signup"
  /\ \E i \in Positions :
       tasks[i].name = "signup" /\ tasks[i].status = COMPLETED /\ tracked[i] # <<>>
  /\ \A k \in {1, 2} :
       /\ eventCalls[k].event = events[k]
       /\ Len(eventCalls[k].calls) = 2
       /\ eventCalls[k].calls[1].fn = "gtag"
       /\ eventCalls[k].calls[2].fn = "analytics.track"

\* C13: every event constructed has an eventGroup that is not empty: the
\* eventGroup it was constructed with if that is not empty, and else a token
\* that no other event constructed without one has.
C13_EventGroupSet ==
  \A k \in 1..Len(eventCalls) :
    LET e == eventCalls[k].event
        supplied == eventCalls[k].eventGroup
    IN /\ e.eventGroup # ""
       /\ supplied # "" => e.eventGroup = supplied
       /\ supplied = "" =>
            \A l \in 1..Len(eventCalls) :
              l # k /\ eventCalls[l].eventGroup = "" =>
                eventCalls[l].event.eventGroup # e.eventGroup

\* Three events: the first and the third created without an eventGroup, with
\* two different tokens, the second created with "g1" and keeping it.
C13_Witness ==
  /\ Len(events) = 3
  /\ eventCalls[1].eventGroup = "" /\ eventCalls[2].eventGroup = "g1"
  /\ eventCalls[3].eventGroup = ""
  /\ events[2].eventGroup = "g1"
  /\ events[1].eventGroup \notin {"", "g1", events[3].eventGroup}
  /\ events[3].eventGroup \notin {"", "g1"}

\* A registerEvent step with a matching trigger is the step of the declared
\* operation: createTask(taskName) for 'start'; for the others nothing at all
\* when getTask(taskName) finds no task, and else complete(), abandon(),
\* addInteraction() or addError() on the task it finds.
RegisterEventActs ==
  (last'.op = "registerEvent" /\ last'.matched) =>
  \A capturedEvent \in Lifecycle.captured,
     dataset \in [huhaTask : Lifecycle.names, huhaTrigger : Lifecycle.triggers,
                  huhaEvent : EventTypes],
     tAbandon \in Lifecycle.times, tStart \in Lifecycle.times :
    (/\ capturedEvent = dataset.huhaTrigger
     /\ RegisterEvent(capturedEvent, dataset, tAbandon, tStart)) =>
      LET task == getTask(tasks, dataset.huhaTask)
      IN IF dataset.huhaEvent = "start"
         THEN CreateTask(dataset.huhaTask, 0, tAbandon, tStart)
         ELSE IF task = 0 THEN UNCHANGED state
         ELSE CASE dataset.huhaEvent = "complete" -> TaskComplete(task, tAbandon)
                [] dataset.huhaEvent = "abandon" -> TaskAbandon(task, tAbandon)
                [] dataset.huhaEvent = "interaction" -> TaskAddInteraction(task)
                [] dataset.huhaEvent = "error" -> TaskAddError(task)

\* C14 as claimed: registerEvent acts by the declared operation, and no
\* registerEvent step changes a task that is no longer in progress or makes a
\* backend call for it.
C14_Original ==
  [][/\ RegisterEventActs
     /\ last'.op = "registerEvent" =>
          \A i \in Positions :
            tasks[i].status # IN_PROGRESS =>
              tasks'[i] = tasks[i] /\ tracked'[i] = tracked[i]]_vars

\* C14 as amended: registerEvent acts by the declared operation, and a
\* registerEvent step leaves the status, the end and the backend calls of every
\* task that is no longer in progress as they were, and its counters too
\* unless the step called addInteraction or addError on a task in progress it
\* is an ancestor of.
C14_DispatchByOperation ==
  [][/\ RegisterEventActs
     /\ last'.op = "registerEvent" =>
          \A i \in Positions :
            tasks[i].status # IN_PROGRESS =>
              /\ tasks'[i].status = tasks[i].status /\ tasks'[i].end = tasks[i].end
              /\ tracked'[i] = tracked[i]
              /\ calls'[i] = calls[i]
              /\ tasks'[i] # tasks[i] =>
                   \E j \in Descendants(i) :
                     /\ j # i /\ tasks[j].status = IN_PROGRESS
                     /\ calls'[j] # calls[j]]_vars

\* registerEvent has just run with a matching trigger while a task of either
\* name was there, both Completed or Abandoned, and changed nothing.
C14_Witness ==
  /\ last.op = "registerEvent" /\ last.matched /\ ~last.changed
  /\ Len(tasks) = 2 /\ tasks[1].name # tasks[2].name
  /\ tasks[1].status = COMPLETED /\ tasks[2].status = ABANDONED
  /\ tracked[1] # <<>> /\ tracked[2] # <<>>

\* C15 as claimed: the flags of a registry just constructed are the built-in
\* defaults overridden by the options passed to its constructor; a task just
\* created has the registry's three flags, an event just created its two.
C15_FlagsPerRegistry ==
  [][/\ last'.op = "new Huha" =>
          trackOn' = ObjectAssign(BUILTIN_DEFAULTS, last'.options)
     /\ Len(tasks') = Len(tasks) + 1 =>
          \A k \in OptionKeys : tasks'[Len(tasks')][k] = trackOn'[k]
     /\ Len(eventCalls') = Len(eventCalls) + 1 =>
          \A k \in EventOptionKeys :
            eventCalls'[Len(eventCalls')].event[k] = trackOn'[k]]_vars

\* The place of a backend function's forwarder in the order of dispatch.
Rank(fn) ==
  CASE fn \in {"gtag", "ga"} -> 1
    [] fn = "Intercom" -> 2
    [] fn = "analytics.track" -> 3

\* C16: the backend calls made for a task are those of Google Analytics, then
\* those of Intercom, then those of Segment; no forwarder's calls are there
\* twice; and none are there of a sink that is disabled on the task.
C16_FixedOrder ==
  \A i \in Positions :
    LET cs == tracked[i]
        fns == {cs[k].fn : k \in 1..Len(cs)}
    IN /\ \A k \in 1..(Len(cs) - 1) : Rank(cs[k].fn) <= Rank(cs[k + 1].fn)
       /\ \A fn \in BackendFunctions : \A label \in SummaryLabels(fn) :
            Sent(cs, fn, label) <= 1
       /\ ~({"gtag", "ga"} \subseteq fns)
       /\ ~tasks[i].trackOnGoogleAnalytics => fns \cap {"gtag", "ga"} = {}
       /\ ~tasks[i].trackOnIntercom => "Intercom" \notin fns
       /\ ~tasks[i].trackOnSegment => "analytics.track" \notin fns

\* Two tasks have ended: one with the three sinks enabled, whose calls are
\* the three of ga, Intercom's and Segment's in that order.
C16_Witness ==
  /\ Len(tasks) = 2 /\ tasks[2].status = ABANDONED
  /\ tasks[1].status = COMPLETED
  /\ tasks[1].trackOnGoogleAnalytics /\ tasks[1].trackOnIntercom
  /\ tasks[1].trackOnSegment
  /\ [k \in 1..Len(tracked[1]) |-> tracked[1][k].fn] =
       <<"ga", "ga", "ga", "Intercom", "analytics.track">>

\* The task j and the tasks above it.
Ancestors(j) == {i \in Positions : IsAncestorOrSelf(i, j)}

\* C17: a step in which addInteraction (addError) is called on a task adds 1
\* to the effort (errors) of every task above it, Completed and Abandoned ones
\* too, makes no backend call and changes no task's status or end.
C17_PropagationUnconditional ==
  [][\A j \in Positions :
       (\/ calls'[j].addInteraction = calls[j].addInteraction + 1
        \/ calls'[j].addError = calls[j].addError + 1) =>
         /\ \A i \in Ancestors(j) :
              /\ tasks'[i].effort = tasks[i].effort +
                   (calls'[j].addInteraction - calls[j].addInteraction)
              /\ tasks'[i].errors = tasks[i].errors +
                   (calls'[j].addError - calls[j].addError)
         /\ tracked' = tracked
         /\ \A i \in Positions :
              tasks'[i].status = tasks[i].status /\ tasks'[i].end = tasks[i].end]_vars

\* A chain of three tasks whose top is Abandoned, its summary sent with
\* effort 0: an addInteraction on the bottom one has made its effort 1.
C17_Witness ==
  /\ Len(tasks) = 3 /\ tasks[2].parentTask = 1 /\ tasks[3].parentTask = 2
  /\ tasks[1].status = ABANDONED /\ tasks[3].status = IN_PROGRESS
  /\ calls[1].addInteraction = 0 /\ calls[2].addInteraction = 0
  /\ calls[3].addInteraction = 1
  /\ tasks[1].effort = 1
  /\ Len(tracked[1]) = 1 /\ tracked[1][1].effort = 0

\* C18: no step shortens tasks or events; every task stays at its position
\* with its name, start, parent and flags, every event at its position as it
\* is; tasks grows by one in a createTask step and else only, by one, in a
\* registerEvent step with a matching trigger; events grows by one in a
\* createEvent step and in no other.
C18_AppendOnly ==
  [][/\ \A i \in Positions :
          /\ i <= Len(tasks')
          /\ tasks'[i].name = tasks[i].name /\ tasks'[i].start = tasks[i].start
          /\ tasks'[i].parentTask = tasks[i].parentTask
          /\ \A k \in OptionKeys : tasks'[i][k] = tasks[i][k]
     /\ \A k \in 1..Len(events) : k <= Len(events') /\ events'[k] = events[k]
     /\ Len(tasks') # Len(tasks) =>
          /\ Len(tasks') = Len(tasks) + 1
          /\ \/ last'.op = "createTask"
             \/ last'.op = "registerEvent" /\ last'.matched
     /\ last'.op = "createTask" => Len(tasks') = Len(tasks) + 1
     /\ Len(events') # Len(events) =>
          Len(events') = Len(events) + 1 /\ last'.op = "createEvent"
     /\ last'.op = "createEvent" => Len(events') = Len(events) + 1]_vars

\* abandonInProgressTasks has just abandoned the second of two tasks of one
\* name, the first being Completed, with two events made: all are still there.
C18_Witness ==
  /\ last.op = "abandonInProgressTasks" /\ last.changed
  /\ Len(tasks) = 2 /\ tasks[1].name = tasks[2].name
  /\ tasks[1].status = COMPLETED /\ tasks[2].status = ABANDONED
  /\ Len(events) = 2

\* C19: a task's parent is a task created before it and stays the one it is;
\* a step in which addInteraction (addError) is called on a task adds exactly 1
\* to the effort (errors) of that task and of every task above it, and nothing
\* to any other task's.
C19_EachAncestorOnce ==
  [][/\ \A i \in 1..Len(tasks') : tasks'[i].parentTask < i
     /\ \A i \in Positions : tasks'[i].parentTask = tasks[i].parentTask
     /\ \A j \in Positions :
          calls'[j] # calls[j] =>
            \A i \in Positions :
              /\ tasks'[i].effort - tasks[i].effort =
                   IF i \in Ancestors(j)
                   THEN calls'[j].addInteraction - calls[j].addInteraction ELSE 0
              /\ tasks'[i].errors - tasks[i].errors =
                   IF i \in Ancestors(j)
                   THEN calls'[j].addError - calls[j].addError ELSE 0
              /\ (calls'[j].addInteraction - calls[j].addInteraction) +
                 (calls'[j].addError - calls[j].addError) = 1]_vars

\* createTask was given the in-progress task of the same name as parent and
\* abandoned it; one addError on the new task has counted once on both, and
\* not on a third task.
C19_Witness ==
  /\ Len(tasks) = 3
  /\ tasks[1].name = tasks[2].name /\ tasks[2].parentTask = 1
  /\ tasks[1].status = ABANDONED /\ tasks[2].status = IN_PROGRESS
  /\ tasks[3].parentTask = 0
  /\ calls[1].addError = 0 /\ calls[2].addError = 1 /\ calls[3].addError = 0
  /\ tasks[1].errors = 1 /\ tasks[2].errors = 1 /\ tasks[3].errors = 0

\* The global a backend function is called through.
GlobalOf(fn) == IF fn = "analytics.track" THEN "analytics" ELSE fn

\* The backend functions task t's summary goes to that throw.
Failing(t) == {fn \in BackendFunctions : SinkOn(t, fn) /\ GlobalOf(fn) \in throwing}

\* C20: a step of a task operation that throws has ended a task all the same,
\* its status and end set; a task that is no longer in progress keeps its
\* status and end and gets no further backend call in any step; its calls hold
\* none to the backend that threw or to a sink after it; and no name has two
\* tasks in progress after the step.
C20_AtMostOnceUnderFailure ==
  [][/\ (thrown' /\ last'.op # "createEvent") =>
          \E i \in Positions :
            /\ tasks[i].status = IN_PROGRESS
            /\ tasks'[i].status \in {COMPLETED, ABANDONED} /\ tasks'[i].end # <<>>
            /\ Failing(tasks'[i]) # {}
     /\ \A i \in Positions :
          /\ tasks[i].status # IN_PROGRESS =>
               /\ tasks'[i].status = tasks[i].status /\ tasks'[i].end = tasks[i].end
               /\ tracked'[i] = tracked[i]
          /\ \A fn \in Failing(tasks'[i]) : \A k \in 1..Len(tracked'[i]) :
               Rank(tracked'[i][k].fn) < Rank(fn)
     /\ \A name \in Names : Cardinality(InProgressNamed(tasks', name)) <= 1]_vars

\* Intercom throws: a task with every sink enabled was abandoned by a
\* createTask that threw, so it is the only task; it went to gtag and neither
\* to Intercom nor to Segment; a complete() on it since then changed nothing.
C20_Witness ==
  /\ throwing = {"Intercom"}
  /\ Len(tasks) = 1 /\ tasks[1].status = ABANDONED /\ tasks[1].end # <<>>
  /\ tasks[1].trackOnGoogleAnalytics /\ tasks[1].trackOnIntercom
  /\ tasks[1].trackOnSegment
  /\ [k \in 1..Len(tracked[1]) |-> tracked[1][k].fn] = <<"gtag", "gtag", "gtag">>
  /\ last.op = "complete" /\ ~last.changed /\ ~thrown

=============================================================================
